---- MODULE Spec2Model ----
(***************************************************************************)
(* The agent-based epidemic simulation of cummw.ipynb: StudentAgent,       *)
(* Apartment, randomly_infect, assign_to_classrooms and run_simulation.    *)
(*                                                                         *)
(* Agents are numbered 1..N in creation order; a list of agents is a       *)
(* sequence of these numbers and the fields of every agent live in the     *)
(* variable agent.  Python lists are 0-based, sequences here are 1-based:  *)
(* students[i] in the source is students[i + 1] here.                      *)
(*                                                                         *)
(* Probabilities are counted in halves: 0 is 0.0, 1 is 0.5 and 2 is 1.0.   *)
(* run_simulation fixes the number of seeded agents (range(10)) and the    *)
(* number of weeks (range(12)) by literals; the model keeps them in the    *)
(* variables initial_infected and weeks, drawn from small ranges, so that  *)
(* a run stays small.  They are not arguments: the seed count does not     *)
(* follow N.                                                               *)
(***************************************************************************)
EXTENDS Integers, Sequences, FiniteSets, TLC

\* ------------------------------------------------------------ bounds
MaxN == 3
MaxM == 2
MaxB == 2
MaxK == 2
MaxWeeks == 2
MaxSeed == 3
MaxDay == 10
MaxAgents == 2
MaxRunSize == 10
MaxGroup == 3

VARIABLES
    N, M, B,                \* run_simulation's arguments
    number_of_classrooms,   \* run_simulation's argument K, as assign_to_classrooms receives it
    K,                      \* the notebook's module-level K, which assign_to_classrooms reads
    p, q,                   \* probabilities at home and in class, in halves
    weeks,                  \* range(12)
    initial_infected,       \* range(10)
    pc,                     \* where run_simulation is
    students,               \* the list students
    agent,                  \* agent number -> the StudentAgent's fields
    apartments,             \* the list apartments
    alloc_i,                \* how many students the allocation loop has placed
    classrooms,             \* the last value of classrooms
    infected_count, sick_count,
    day_number,
    week, day,              \* the loop variables: week in 0..weeks-1, day in 1..7
    sources,                \* agents that were agent1 with agent1.infectious() true since the last advance
    raised,                 \* the exception that ended the run, and where
    result                  \* what run_simulation returned

vars == <<N, M, B, number_of_classrooms, K, p, q, weeks, initial_infected, pc,
          students, agent, apartments, alloc_i, classrooms, infected_count,
          sick_count, day_number, week, day, sources, raised, result>>

params == <<N, M, B, number_of_classrooms, K, p, q, weeks, initial_infected>>

\* ------------------------------------------------------------ helpers

\* uniform(0, 1) in halves: a value of [0, 1)
uniform01 == {0, 1}

Probs == {0, 1, 2}

ProbOne == CHOOSE x \in Probs : \A y \in Probs : y <= x

\* bernoulli that compares with <=
bernoulli_le(prob) == {u <= prob : u \in uniform01}

bernoulli(prob) == {u < prob : u \in uniform01}

\* the comparison with <= for one value of uniform(0, 1)
BernoulliDrawLe(u, prob) == u <= prob

\* bernoulli(prob) when uniform(0, 1) returns u
BernoulliDraw(u, prob) == u < prob

InfectiousTimeMin == 7
InfectiousTimeMax == 10

\* an infectious time that can be as short as no day at all
generate_infectious_time_from_zero == 0..InfectiousTimeMax

\* round(uniform(7,10))
generate_infectious_time == InfectiousTimeMin..InfectiousTimeMax

\* ------------------------------------------------------------ StudentAgent

HEALTHY == "HEALTHY"
INFECTIOUS == "INFECTIOUS"
IMMUNE == "IMMUNE"

State == {HEALTHY, INFECTIOUS, IMMUNE}

\* infectious_end of an agent that has no such attribute yet
NoEnd == 0

StudentAgent == [state |-> HEALTHY, _infected |-> FALSE, infectious_end |-> NoEnd]

\* simulate_disease with the flag read in every state but INFECTIOUS: an
\* IMMUNE agent that was exposed again falls ill again
simulate_disease_reinfect(self, d) ==
    IF self.state = INFECTIOUS
    THEN IF d = self.infectious_end
         THEN {[self EXCEPT !.state = IMMUNE]}
         ELSE {self}
    ELSE IF self._infected
         THEN {[self EXCEPT !.state = INFECTIOUS, !.infectious_end = d + t] :
                   t \in generate_infectious_time}
         ELSE {self}

\* simulate_disease that draws infectious_end again on every day it leaves
\* an INFECTIOUS agent as it is
simulate_disease_redraw(self, d) ==
    IF self.state = HEALTHY
    THEN IF self._infected
         THEN {[self EXCEPT !.state = INFECTIOUS, !.infectious_end = d + t] :
                   t \in generate_infectious_time}
         ELSE {self}
    ELSE IF self.state = INFECTIOUS
         THEN IF d = self.infectious_end
              THEN {[self EXCEPT !.state = IMMUNE]}
              ELSE {[self EXCEPT !.infectious_end = d + t] : t \in generate_infectious_time}
         ELSE {self}

\* simulate_disease(day): the values self can have after the call, one for
\* each value generate_infectious_time() can return when it is called
simulate_disease(self, d) ==
    IF self.state = HEALTHY
    THEN IF self._infected
         THEN {[self EXCEPT !.state = INFECTIOUS, !.infectious_end = d + t] :
                   t \in generate_infectious_time}
         ELSE {self}
    ELSE IF self.state = INFECTIOUS
         THEN IF d = self.infectious_end
              THEN {[self EXCEPT !.state = IMMUNE]}
              ELSE {self}
         ELSE {self}

\* infect that switches the flag
infect_toggle(self) == [self EXCEPT !._infected = ~@]

infect(self) == [self EXCEPT !._infected = TRUE]

\* infectious() that also answers for an agent infected today
infectious_or_pending(self) == self.state = INFECTIOUS \/ self._infected

infectious(self) == self.state = INFECTIOUS

\* have_been_sick that answers for the present only
have_been_sick_now(self) == self.state = INFECTIOUS

have_been_sick(self) == self.state # HEALTHY

\* ------------------------------------------------------------ Apartment

Apartment(capacity) == [occupants |-> <<>>, capacity |-> capacity]

add_occupant(apartment, occupant) ==
    [apartment EXCEPT !.occupants = Append(@, occupant)]

\* is_full that compares with > : an apartment takes one occupant too many
is_full_over(apartment) == Len(apartment.occupants) > apartment.capacity

is_full(apartment) == Len(apartment.occupants) = apartment.capacity

\* ------------------------------------------------------------ lists

\* a shuffle that draws every position from the whole list: agents can
\* come twice and others be lost
shuffle_sample(l) ==
    LET n == Len(l)
    IN  {[i \in 1..n |-> l[f[i]]] : f \in [1..n -> 1..n]}

\* shuffle(l): every order of l
shuffle(l) ==
    LET n == Len(l)
    IN  {[i \in 1..n |-> l[f[i]]] :
            f \in {g \in [1..n -> 1..n] : \A i, j \in 1..n : g[i] = g[j] => i = j}}

\* l[start::step] for a 0-based start
Slice(l, start, step) ==
    LET n == Len(l)
        cnt == IF start >= n THEN 0 ELSE ((n - 1 - start) \div step) + 1
    IN  [j \in 1..cnt |-> l[start + (j - 1) * step + 1]]

\* np.sum of a list of booleans
CountTrue(flags) == Cardinality({i \in 1..Len(flags) : flags[i]})

\* np.diff
diff(l) == [i \in 1..(Len(l) - 1) |-> l[i + 1] - l[i]]

Members(groups) == UNION {{groups[g][i] : i \in 1..Len(groups[g])} : g \in 1..Len(groups)}

\* ------------------------------------------------------------ randomly_infect

\* The double loop of randomly_infect from its k-th pair on (pairs in the
\* order the loops visit them).  o is [agent, sources]; the result is the
\* set of states the call can end in.
RECURSIVE InfectPairs(_, _, _, _)
InfectPairs(group, prob, k, o) ==
    LET n == Len(group)
    IN  IF k > n * n
        THEN {o}
        ELSE LET agent1 == group[((k - 1) \div n) + 1]
                 agent2 == group[((k - 1) % n) + 1]
                 o1 == IF infectious(o.agent[agent1])
                       THEN [o EXCEPT !.sources = @ \cup {agent1}]
                       ELSE o
             IN  IF infectious(o.agent[agent1]) /\ ~infectious(o.agent[agent2])
                 THEN UNION {InfectPairs(group, prob, k + 1,
                                 IF b THEN [o1 EXCEPT !.agent[agent2] = infect(@)]
                                      ELSE o1) : b \in bernoulli(prob)}
                 ELSE InfectPairs(group, prob, k + 1, o1)

randomly_infect(group, prob, o) == InfectPairs(group, prob, 1, o)

\* the loop over the groups that stops after its first turn
InfectFirstGroup(groups, prob, g, o) ==
    IF g > Len(groups) THEN {o} ELSE randomly_infect(groups[g], prob, o)

\* for group in groups: randomly_infect(group, prob)
RECURSIVE InfectGroups(_, _, _, _)
InfectGroups(groups, prob, g, o) ==
    IF g > Len(groups)
    THEN {o}
    ELSE UNION {InfectGroups(groups, prob, g + 1, o2) :
                    o2 \in randomly_infect(groups[g], prob, o)}

\* ------------------------------------------------------------ assign_to_classrooms

\* the lists returned for one order of the shuffled students
Chunks(shuffled, n_classrooms) ==
    [i \in 1..n_classrooms |-> Slice(shuffled, i - 1, K)]

\* [shuffled students, returned classrooms], for every outcome of the shuffle
assign_to_classrooms(l, n_classrooms) ==
    {[students |-> s, classrooms |-> Chunks(s, n_classrooms)] : s \in shuffle(l)}

\* ------------------------------------------------------------ run_simulation

NoResult ==
    [total_sick |-> 0, infected_count |-> <<>>, infected_count_daily_change |-> <<>>,
     sick_count |-> <<>>, sick_count_daily_change |-> <<>>]

NotRaised == [error |-> "none", in |-> "none"]

\* a probability strictly between 0 and 1: the trial can go both ways
Mixed(prob) == IF bernoulli(prob) = {TRUE, FALSE} THEN 1 ELSE 0

\* the size of a run: runs are explored up to a total size
RunSize ==
    N + M + B + number_of_classrooms + K + weeks + initial_infected + Mixed(p) + Mixed(q)

Init ==
    /\ N \in 1..MaxN
    /\ M \in 1..MaxM
    /\ B \in 1..MaxB
    /\ number_of_classrooms \in 1..MaxK
    /\ K \in 1..MaxK
    /\ p \in Probs
    /\ q \in Probs
    /\ weeks \in 1..MaxWeeks
    /\ initial_infected \in 0..MaxSeed
    /\ RunSize <= MaxRunSize
    /\ pc = "seed"
    /\ students = [i \in 1..N |-> i]
    /\ agent = [a \in 1..N |-> StudentAgent]
    /\ apartments = [j \in 1..M |-> Apartment(B)]
    /\ alloc_i = 0
    /\ classrooms = <<>>
    /\ infected_count = <<>>
    /\ sick_count = <<>>
    /\ day_number = 0
    /\ week = 0
    /\ day = 1
    /\ sources = {}
    /\ raised = NotRaised
    /\ result = NoResult

\* for i in range(10): students[i].infect()
Seed ==
    /\ pc = "seed"
    /\ LET done == IF initial_infected <= N THEN initial_infected ELSE N
       IN  agent' = [a \in 1..N |-> IF a \in {students[i] : i \in 1..done}
                                     THEN infect(agent[a]) ELSE agent[a]]
    /\ IF initial_infected <= N
       THEN /\ pc' = "shuffle"
            /\ raised' = raised
       ELSE /\ pc' = "raised"
            /\ raised' = [error |-> "IndexError", in |-> "seed"]
    /\ UNCHANGED <<params, students, apartments, alloc_i, classrooms, infected_count,
                   sick_count, day_number, week, day, sources, result>>

\* shuffle(students)
Shuffle ==
    /\ pc = "shuffle"
    /\ students' \in shuffle(students)
    /\ pc' = "allocate"
    /\ UNCHANGED <<params, agent, apartments, alloc_i, classrooms, infected_count,
                   sick_count, day_number, week, day, sources, raised, result>>

\* the list without its filter: every apartment, full or not
apartments_unfiltered == 1..Len(apartments)

apartments_with_space == {j \in 1..Len(apartments) : ~is_full(apartments[j])}

\* one turn of the allocation loop: choice(apartments_with_space), add_occupant
Allocate ==
    /\ pc = "allocate"
    /\ alloc_i < Len(students)
    /\ IF apartments_with_space = {}
       THEN /\ pc' = "raised"
            /\ raised' = [error |-> "IndexError", in |-> "allocate"]
            /\ UNCHANGED <<apartments, alloc_i>>
       ELSE /\ \E random_apartment \in apartments_with_space :
                  apartments' = [apartments EXCEPT ![random_apartment] =
                                     add_occupant(@, students[alloc_i + 1])]
            /\ alloc_i' = alloc_i + 1
            /\ UNCHANGED <<pc, raised>>
    /\ UNCHANGED <<params, students, agent, classrooms, infected_count,
                   sick_count, day_number, week, day, sources, result>>

\* the allocation loop is over; the day loop starts
StartDays ==
    /\ pc = "allocate"
    /\ alloc_i = Len(students)
    /\ pc' = "morning"
    /\ UNCHANGED <<params, students, agent, apartments, alloc_i, classrooms,
                   infected_count, sick_count, day_number, week, day, sources,
                   raised, result>>

SATURDAY == 6
SUNDAY == 7

\* a weekday morning: assign_to_classrooms, then randomly_infect(classroom, q) on each
GoToClass ==
    /\ pc = "morning"
    /\ day \notin {SATURDAY, SUNDAY}
    /\ \E a \in assign_to_classrooms(students, number_of_classrooms) :
          /\ students' = a.students
          /\ classrooms' = a.classrooms
          /\ \E o \in InfectGroups(a.classrooms, q, 1, [agent |-> agent, sources |-> sources]) :
                /\ agent' = o.agent
                /\ sources' = o.sources
    /\ pc' = "evening"
    /\ UNCHANGED <<params, apartments, alloc_i, infected_count, sick_count,
                   day_number, week, day, raised, result>>

\* Saturday and Sunday: no class
Weekend ==
    /\ pc = "morning"
    /\ day \in {SATURDAY, SUNDAY}
    /\ pc' = "evening"
    /\ UNCHANGED <<params, students, agent, apartments, alloc_i, classrooms,
                   infected_count, sick_count, day_number, week, day, sources,
                   raised, result>>

\* for apartment in apartments: randomly_infect(apartment.occupants, p)
AtHome ==
    /\ pc = "evening"
    /\ \E o \in InfectGroups([j \in 1..Len(apartments) |-> apartments[j].occupants], p, 1,
                             [agent |-> agent, sources |-> sources]) :
          /\ agent' = o.agent
          /\ sources' = o.sources
    /\ pc' = "record"
    /\ UNCHANGED <<params, students, apartments, alloc_i, classrooms, infected_count,
                   sick_count, day_number, week, day, raised, result>>

\* the count that takes a flagged agent for an infectious one
IsInfectiousOrFlagged(a) == infectious(agent[a]) \/ agent[a]._infected

IsInfectious(a) == infectious(agent[a])
HasBeenSick(a) == have_been_sick(agent[a])

\* the two appends
Record ==
    /\ pc = "record"
    /\ infected_count' = Append(infected_count,
                           CountTrue([i \in 1..Len(students) |-> IsInfectious(students[i])]))
    /\ sick_count' = Append(sick_count,
                       CountTrue([i \in 1..Len(students) |-> HasBeenSick(students[i])]))
    /\ pc' = "advance"
    /\ UNCHANGED <<params, students, agent, apartments, alloc_i, classrooms,
                   day_number, week, day, sources, raised, result>>

\* the advance loop that leaves out the first agent of the list
AdvanceAllButFirst(ag, l, d) ==
    LET listed == {l[i] : i \in 2..Len(l)}
        after(a) == IF a \in listed THEN simulate_disease(ag[a], d) ELSE {ag[a]}
    IN  {f \in [DOMAIN ag -> UNION {after(a) : a \in DOMAIN ag}] :
            \A a \in DOMAIN ag : f[a] \in after(a)}

\* for agent in students: agent.simulate_disease(d), every outcome
AdvanceAll(ag, l, d) ==
    LET listed == {l[i] : i \in 1..Len(l)}
        after(a) == IF a \in listed THEN simulate_disease(ag[a], d) ELSE {ag[a]}
    IN  {f \in [DOMAIN ag -> UNION {after(a) : a \in DOMAIN ag}] :
            \A a \in DOMAIN ag : f[a] \in after(a)}

\* range(weeks) with one week too many
MoreWeeksOffByOne == week + 1 <= weeks

\* for week in range(12): whether another week follows this one
MoreWeeks == week + 1 < weeks

\* day_number += 1, simulate_disease(day_number) on every agent, and the loops' next turn
Advance ==
    /\ pc = "advance"
    /\ day_number' = day_number + 1
    /\ agent' \in AdvanceAll(agent, students, day_number + 1)
    /\ sources' = {}
    /\ IF day < SUNDAY
       THEN /\ day' = day + 1
            /\ week' = week
            /\ pc' = "morning"
       ELSE IF MoreWeeks
            THEN /\ day' = 1
                 /\ week' = week + 1
                 /\ pc' = "morning"
            ELSE /\ UNCHANGED <<day, week>>
                 /\ pc' = "finish"
    /\ UNCHANGED <<params, students, apartments, alloc_i, classrooms, infected_count,
                   sick_count, raised, result>>

\* the differences, total_sick and the return
Finish ==
    /\ pc = "finish"
    /\ result' = [total_sick |-> sick_count[Len(sick_count)],
                  infected_count |-> infected_count,
                  infected_count_daily_change |-> diff(infected_count),
                  sick_count |-> sick_count,
                  sick_count_daily_change |-> diff(sick_count)]
    /\ pc' = "returned"
    /\ UNCHANGED <<params, students, agent, apartments, alloc_i, classrooms,
                   infected_count, sick_count, day_number, week, day, sources, raised>>

Next ==
    \/ Seed
    \/ Shuffle
    \/ Allocate
    \/ StartDays
    \/ GoToClass
    \/ Weekend
    \/ AtHome
    \/ Record
    \/ Advance
    \/ Finish

Spec == Init /\ [][Next]_vars

\* ------------------------------------------------------------ calls on agents

\* Any sequence of infect() and simulate_disease(day) calls on MaxAgents
\* agents, with any day argument up to MaxDay.
AgentInit ==
    /\ N \in 1..MaxAgents
    /\ M = 1 /\ B = 1 /\ number_of_classrooms = 1 /\ K = 1
    /\ p = 0 /\ q = 0 /\ weeks = 1 /\ initial_infected = 0
    /\ pc = "calls"
    /\ students = [i \in 1..N |-> i]
    /\ agent = [a \in 1..N |-> StudentAgent]
    /\ apartments = <<>>
    /\ alloc_i = 0
    /\ classrooms = <<>>
    /\ infected_count = <<>>
    /\ sick_count = <<>>
    /\ day_number = 0
    /\ week = 0
    /\ day = 1
    /\ sources = {}
    /\ raised = NotRaised
    /\ result = NoResult

CallInfect(a) ==
    /\ pc = "calls"
    /\ agent' = [agent EXCEPT ![a] = infect(@)]
    /\ UNCHANGED <<params, pc, students, apartments, alloc_i, classrooms,
                   infected_count, sick_count, day_number, week, day, sources,
                   raised, result>>

CallSimulateDisease(a, d) ==
    /\ pc = "calls"
    /\ \E after \in simulate_disease(agent[a], d) : agent' = [agent EXCEPT ![a] = after]
    /\ UNCHANGED <<params, pc, students, apartments, alloc_i, classrooms,
                   infected_count, sick_count, day_number, week, day, sources,
                   raised, result>>

AgentNext ==
    \E a \in 1..N :
        \/ CallInfect(a)
        \/ \E d \in 0..MaxDay : CallSimulateDisease(a, d)

AgentSpec == AgentInit /\ [][AgentNext]_vars

\* ------------------------------------------------------------ calls of randomly_infect

\* the fields an agent can have in a run: as created, after infect(), and
\* after the first and the second move of simulate_disease
AgentShapes ==
    LET ill == [infect(StudentAgent) EXCEPT !.state = INFECTIOUS,
                                            !.infectious_end = InfectiousTimeMin]
    IN  {StudentAgent, infect(StudentAgent), ill, [ill EXCEPT !.state = IMMUNE]}

\* the lists of distinct agents out of 1..n
Groups(n) ==
    UNION {{g \in [1..len -> 1..n] : \A i, j \in 1..len : g[i] = g[j] => i = j} :
              len \in 0..n}

\* One call randomly_infect(group, prob) on any group of any agents: the
\* group is classrooms[1] and prob is q.
GroupInit ==
    /\ N \in 1..MaxGroup
    /\ M = 1 /\ B = 1 /\ number_of_classrooms = 1 /\ K = 1
    /\ p = 0 /\ q \in Probs /\ weeks = 1 /\ initial_infected = 0
    /\ pc = "group"
    /\ students = [i \in 1..N |-> i]
    /\ agent \in [1..N -> AgentShapes]
    /\ apartments = <<>>
    /\ alloc_i = 0
    /\ \E group \in Groups(N) : classrooms = <<group>>
    /\ infected_count = <<>>
    /\ sick_count = <<>>
    /\ day_number = 0
    /\ week = 0
    /\ day = 1
    /\ sources = {}
    /\ raised = NotRaised
    /\ result = NoResult

CallRandomlyInfect ==
    /\ pc = "group"
    /\ \E o \in randomly_infect(classrooms[1], q, [agent |-> agent, sources |-> sources]) :
          /\ agent' = o.agent
          /\ sources' = o.sources
    /\ pc' = "grouped"
    /\ UNCHANGED <<params, students, apartments, alloc_i, classrooms, infected_count,
                   sick_count, day_number, week, day, raised, result>>

GroupNext == CallRandomlyInfect

GroupSpec == GroupInit /\ [][GroupNext]_vars

\* The double loop of randomly_infect when the calls of uniform(0, 1) return
\* tape[1], tape[2], ... in this order.  o is [agent, used], used the number
\* of calls of bernoulli so far; the result is the o the call ends with.
RECURSIVE InfectPairsDrawn(_, _, _, _, _)
InfectPairsDrawn(group, prob, k, o, tape) ==
    LET n == Len(group)
    IN  IF k > n * n
        THEN o
        ELSE LET agent1 == group[((k - 1) \div n) + 1]
                 agent2 == group[((k - 1) % n) + 1]
             IN  IF infectious(o.agent[agent1]) /\ ~infectious(o.agent[agent2])
                 THEN LET o1 == [o EXCEPT !.used = @ + 1]
                      IN  InfectPairsDrawn(group, prob, k + 1,
                              IF BernoulliDraw(tape[o.used + 1], prob)
                              THEN [o1 EXCEPT !.agent[agent2] = infect(@)]
                              ELSE o1, tape)
                 ELSE InfectPairsDrawn(group, prob, k + 1, o, tape)

\* the sequences of n values of uniform(0, 1)
Tapes(n) == [1..n -> uniform01]

\* the pairs (agent1, agent2) of the group that pass the test of randomly_infect
Trials(ag, group) ==
    {<<i, j>> \in (1..Len(group)) \X (1..Len(group)) :
        infectious(ag[group[i]]) /\ ~infectious(ag[group[j]])}

\* ------------------------------------------------------------ properties

\* the moves of the disease state that simulate_disease may make
LegalMove(from, to) ==
    \/ to = from
    \/ from = HEALTHY /\ to = INFECTIOUS
    \/ from = INFECTIOUS /\ to = IMMUNE

\* C1: in every step, every agent's state stays the same or moves HEALTHY ->
\* INFECTIOUS or INFECTIOUS -> IMMUNE; it never moves backward, never skips
\* INFECTIOUS, and an IMMUNE agent stays IMMUNE, whatever calls are made.
C1_StateMonotone ==
    [][\A a \in DOMAIN agent : LegalMove(agent[a].state, agent'[a].state)]_vars

\* C1: one agent went through both moves while another is still HEALTHY
C1_Witness ==
    \E a, b \in DOMAIN agent : agent[a].state = IMMUNE /\ agent[b].state = HEALTHY

\* every placed student is in exactly one apartment, once
PlacedOnce(a) ==
    Cardinality({<<j, i>> \in (1..Len(apartments)) \X (1..N) :
                    i <= Len(apartments[j].occupants)
                    /\ apartments[j].occupants[i] = a}) = 1

AllocationOver == pc \in {"morning", "evening", "record", "advance", "finish", "returned"}

\* C2: no apartment ever holds more than B occupants; the students the
\* allocation loop has placed are each in exactly one apartment, so after
\* the loop all N agents are; and the apartment an occupant is added to is
\* not full when it is chosen.
C2_Housing ==
    /\ [](/\ \A j \in 1..Len(apartments) : Len(apartments[j].occupants) <= B
          /\ (pc = "allocate" \/ AllocationOver) =>
                \A i \in 1..alloc_i : PlacedOnce(students[i])
          /\ AllocationOver =>
                /\ alloc_i = N
                /\ \A a \in 1..N : PlacedOnce(a))
    /\ [][\A j \in 1..Len(apartments) :
              apartments'[j] # apartments[j] => ~is_full(apartments[j])]_vars

\* C2: the allocation is over, with several agents in several apartments,
\* one of them full
C2_Witness ==
    /\ pc = "morning"
    /\ N > M /\ M > 1
    /\ \E j \in 1..M : is_full(apartments[j])
    /\ \E j \in 1..M : ~is_full(apartments[j])

Weekday == day \notin {SATURDAY, SUNDAY}

\* how often agent a occurs in the lists of groups
Occurrences(groups, a) ==
    Cardinality({<<g, i>> \in (1..Len(groups)) \X (1..N) :
                    i <= Len(groups[g]) /\ groups[g][i] = a})

\* C3: on a weekday, the classrooms assign_to_classrooms returned are
\* exactly number_of_classrooms groups, every agent is in exactly one of
\* them, and the sizes of two groups differ by at most 1.
C3_ClassroomPartition ==
    (pc = "evening" /\ Weekday) =>
        /\ Len(classrooms) = number_of_classrooms
        /\ \A a \in 1..N : Occurrences(classrooms, a) = 1
        /\ \A g, h \in 1..Len(classrooms) :
              Len(classrooms[g]) - Len(classrooms[h]) <= 1

\* the agents the seeding loop infects: students[0] .. students[initial_infected - 1]
\* of the list as created
Seeded == 1..initial_infected

\* C4: exactly initial_infected agents are seeded; on day 1 they are
\* INFECTIOUS, they are sources of day 1's contagion rounds, and the first
\* entry of infected_count is initial_infected.
C4_SeedsInfectiousOnDay1 ==
    /\ pc = "shuffle" => {a \in 1..N : agent[a]._infected} = Seeded
    /\ (day_number = 0 /\ pc \in {"morning", "evening", "record"}) =>
            \A a \in Seeded : infectious(agent[a])
    /\ (day_number = 0 /\ pc = "record") => Seeded \subseteq sources
    /\ Len(infected_count) >= 1 => infected_count[1] = initial_infected

\* C5: one apartment that holds all N agents, one classroom, p = 1.0,
\* q = 0.0, one week, one seed: the second entry of sick_count is N
\* (the claim's run is the one with N = 4), and no classroom round marks
\* an agent.
C5_OneHouseholdScenario ==
    (/\ M = 1 /\ B = N /\ N > 1
     /\ number_of_classrooms = 1 /\ K = 1
     /\ p = ProbOne /\ q = 0
     /\ weeks = 1 /\ initial_infected = 1) =>
        /\ Len(sick_count) >= 2 => sick_count[2] = N
        /\ (pc = "evening" /\ Weekday) =>
                {a \in 1..N : agent[a]._infected /\ agent[a].state = HEALTHY}
                    \subseteq (IF day_number = 0 THEN Seeded ELSE {})

\* C6: with p = 0 and q = 0 only the seeds ever leave HEALTHY, every
\* recorded entry of sick_count is the number of seeds, and so is total_sick.
C6_ZeroSpread ==
    (p = 0 /\ q = 0) =>
        /\ \A a \in (1..N) \ Seeded : agent[a].state = HEALTHY
        /\ \A i \in 1..Len(sick_count) : sick_count[i] = initial_infected
        /\ pc = "returned" => result.total_sick = initial_infected

\* HEALTHY agents on which infect() was called: they fall ill at the next advance
Pending == {a \in DOMAIN agent : agent[a].state = HEALTHY /\ agent[a]._infected}

Infectious(ag, group) == {a \in group : infectious(ag[a])}

Occupants == [j \in 1..Len(apartments) |-> apartments[j].occupants]

C9_NoFailure ==
    (N >= 1 /\ M >= 1 /\ B >= 1 /\ number_of_classrooms >= 1 /\ M * B >= N) =>
        pc # "raised"

DaysPerWeek == SUNDAY

\* the run can take its next step.  For the two contagion rounds this is
\* ENABLED GoToClass \/ ENABLED Weekend and ENABLED AtHome, written out.
CanStep ==
    CASE pc = "morning" ->
            \/ ~Weekday
            \/ \E a \in assign_to_classrooms(students, number_of_classrooms) :
                  InfectGroups(a.classrooms, q, 1, [agent |-> agent, sources |-> sources]) # {}
      [] pc = "evening" ->
            InfectGroups([j \in 1..Len(apartments) |-> apartments[j].occupants], p, 1,
                         [agent |-> agent, sources |-> sources]) # {}
      [] OTHER -> ENABLED Next

\* a number that every step of a run increases
Rank ==
    LET days == 3 + N + 4 * day_number
    IN  CASE pc = "seed" -> 0
          [] pc = "shuffle" -> 1
          [] pc = "allocate" -> 2 + alloc_i
          [] pc = "morning" -> days
          [] pc = "evening" -> days + 1
          [] pc = "record" -> days + 2
          [] pc = "advance" -> days + 3
          [] pc = "finish" -> days + 4
          [] pc = "returned" -> days + 5
          [] OTHER -> 3 + N + 4 * weeks * DaysPerWeek + 6

\* C10: every simulated day appends one entry to each series; a run that
\* has not returned or raised can always take a step, every step brings it
\* closer to the end, and it returns after weeks*7 days with both series of
\* length weeks*7, both difference series of length weeks*7 - 1 and
\* total_sick the last entry of sick_count.
C10_Termination ==
    /\ [](/\ Len(infected_count) = Len(sick_count)
          /\ pc \in {"morning", "evening", "record"} =>
                /\ Len(sick_count) = day_number
                /\ day_number = week * DaysPerWeek + day - 1
                /\ day_number < weeks * DaysPerWeek
          /\ pc = "advance" => Len(sick_count) = day_number + 1
          /\ pc \in {"finish", "returned"} =>
                /\ day_number = weeks * DaysPerWeek
                /\ Len(sick_count) = weeks * DaysPerWeek
          /\ pc = "returned" =>
                /\ result.infected_count = infected_count
                /\ result.sick_count = sick_count
                /\ Len(result.infected_count_daily_change) = weeks * DaysPerWeek - 1
                /\ Len(result.sick_count_daily_change) = weeks * DaysPerWeek - 1
                /\ result.total_sick = sick_count[weeks * DaysPerWeek]
          /\ pc \notin {"returned", "raised"} => CanStep)
    /\ [][Rank' > Rank /\ Rank' <= 3 + N + 4 * weeks * DaysPerWeek + 6]_vars

\* C10: a run of more than one week has returned
C10_Witness == pc = "returned" /\ weeks > 1 /\ N > 1

\* every non-INFECTIOUS member of a group that has an INFECTIOUS member
Exposed(ag, groups) ==
    {a \in DOMAIN ag : \E g \in 1..Len(groups) :
        /\ a \in Members(<<groups[g]>>)
        /\ ~infectious(ag[a])
        /\ \E b \in Members(<<groups[g]>>) : infectious(ag[b])}

\* the agents a step newly flags
NewlyFlagged == {a \in DOMAIN agent : ~agent[a]._infected /\ agent'[a]._infected}

\* a step changes nothing of the agents but their flags
OnlyFlags == \A a \in DOMAIN agent : agent'[a] = agent[a] \/ agent'[a] = infect(agent[a])

\* C11: the phases of a day follow each other as classroom round (Monday
\* to Friday only, on each classroom with q), apartment round (on each
\* apartment with p), one sample of both counts, then the day counter's
\* increment with simulate_disease(day_number) on every agent; nothing else
\* changes the agents, the series or the day counter; on Saturday and
\* Sunday the morning changes nothing; and the apartments are filled only
\* in the allocation loop, which is entered once, before the first day.
C11_PhaseOrder ==
    /\ [][/\ pc = "morning" => pc' = "evening"
          /\ pc = "evening" => pc' = "record"
          /\ pc = "record" => pc' = "advance"
          /\ pc = "advance" => pc' \in {"morning", "finish"}
          /\ pc' = "morning" => pc \in {"allocate", "advance"}
          /\ pc' = "allocate" => pc \in {"shuffle", "allocate"}]_vars
    /\ [][(pc = "morning" /\ ~Weekday) =>
              /\ agent' = agent /\ sources' = sources
              /\ students' = students /\ classrooms' = classrooms]_vars
    /\ [][(pc = "morning" /\ Weekday) =>
              /\ Len(classrooms') = number_of_classrooms
              /\ OnlyFlags
              /\ NewlyFlagged \subseteq Exposed(agent, classrooms')
              /\ q = 0 => NewlyFlagged = {}
              /\ q = ProbOne => \A a \in Exposed(agent, classrooms') : agent'[a]._infected]_vars
    /\ [][pc = "evening" =>
              /\ OnlyFlags
              /\ NewlyFlagged \subseteq Exposed(agent, Occupants)
              /\ p = 0 => NewlyFlagged = {}
              /\ p = ProbOne => \A a \in Exposed(agent, Occupants) : agent'[a]._infected]_vars
    /\ [][IF pc = "record"
          THEN /\ Len(infected_count') = Len(infected_count) + 1
               /\ Len(sick_count') = Len(sick_count) + 1
               /\ agent' = agent
          ELSE infected_count' = infected_count /\ sick_count' = sick_count]_vars
    /\ [][IF pc = "advance"
          THEN /\ day_number' = day_number + 1
               /\ \A a \in 1..N : agent'[a] \in simulate_disease(agent[a], day_number + 1)
          ELSE day_number' = day_number]_vars
    /\ [][apartments' # apartments =>
              pc = "allocate" /\ day_number = 0 /\ sick_count = <<>>]_vars

\* C11: a Sunday's apartment round has flagged an agent, the sample is taken
\* and the advance is next
C11_Witness ==
    /\ pc = "advance" /\ day = SUNDAY
    /\ Pending # {} /\ sources # {}
    /\ Len(sick_count) = day_number + 1

\* C12: an IMMUNE agent is left as it is by simulate_disease(day) for every
\* day and by every other call, have_been_sick() of an agent that has been
\* sick stays true, and infect() on an INFECTIOUS or IMMUNE agent changes
\* nothing of the agent, so it cannot cause a later transition.
C12_TerminalImmunity ==
    /\ [](\A a \in DOMAIN agent :
            /\ agent[a].state = IMMUNE =>
                  /\ \A d \in 0..MaxDay : simulate_disease(agent[a], d) = {agent[a]}
                  /\ have_been_sick(agent[a])
            /\ agent[a].state # HEALTHY => infect(agent[a]) = agent[a])
    /\ [][\A a \in DOMAIN agent :
            /\ agent[a].state = IMMUNE => agent'[a] = agent[a]
            /\ have_been_sick(agent[a]) => have_been_sick(agent'[a])]_vars

\* C12: an agent is IMMUNE since a day before the last day a call can name
C12_Witness ==
    \E a \in DOMAIN agent :
        agent[a].state = IMMUNE /\ agent[a].infectious_end < MaxDay

\* C14: a HEALTHY agent has no infectious_end and every other agent has one;
\* infectious_end changes only in a step that moves the agent from HEALTHY
\* to INFECTIOUS, which assigns it; no later call changes it.
C14_InfectiousEndOnce ==
    /\ [](\A a \in DOMAIN agent :
            agent[a].state = HEALTHY <=> agent[a].infectious_end = NoEnd)
    /\ [][\A a \in DOMAIN agent :
            /\ agent'[a].infectious_end # agent[a].infectious_end =>
                  agent[a].state = HEALTHY /\ agent'[a].state = INFECTIOUS
            /\ (agent[a].state = HEALTHY /\ agent'[a].state = INFECTIOUS) =>
                  agent'[a].infectious_end # NoEnd]_vars

\* C14: an agent is INFECTIOUS, with its infectious_end, on a day after the
\* one that made it INFECTIOUS, while another agent is still HEALTHY
C14_Witness ==
    \E a, b \in DOMAIN agent :
        /\ agent[a].state = INFECTIOUS
        /\ agent[a].infectious_end > InfectiousTimeMax
        /\ agent[b].state = HEALTHY /\ agent[b]._infected

\* C13: infect() called again on an agent gives the agent that one call
\* gives, and simulate_disease then gives the same agents for every day; a
\* call of randomly_infect leaves every agent as it was or as one infect()
\* leaves it, also an agent that several INFECTIOUS members of the group
\* infect in the call.
C13_InfectIdempotent ==
    /\ [](\A a \in DOMAIN agent :
            /\ infect(infect(agent[a])) = infect(agent[a])
            /\ infect(infect(infect(agent[a]))) = infect(agent[a])
            /\ \A d \in 0..MaxDay :
                  simulate_disease(infect(infect(agent[a])), d)
                      = simulate_disease(infect(agent[a]), d))
    /\ [][pc = "group" =>
            /\ OnlyFlags
            /\ (q = ProbOne /\ Cardinality(Infectious(agent, Members(classrooms))) > 1) =>
                  \A a \in Members(classrooms) :
                      ~infectious(agent[a]) => agent'[a] = infect(agent[a])]_vars

\* C13: with prob = 1.0 two INFECTIOUS members of the group have both
\* infected a HEALTHY member
C13_Witness ==
    /\ pc = "grouped" /\ q = ProbOne
    /\ Cardinality(sources) > 1
    /\ \E a \in Members(classrooms) : a \in Pending

RECURSIVE Pow(_, _)
Pow(b, e) == IF e = 0 THEN 1 ELSE b * Pow(b, e - 1)

\* the HEALTHY members of the group that are not pending
Susceptible(ag, group) ==
    {a \in Members(<<group>>) : ag[a].state = HEALTHY /\ ~ag[a]._infected}

\* the agents randomly_infect(group, prob) newly flags when uniform(0, 1) returns tape
NewlyPending(ag, group, prob, tape) ==
    LET o == InfectPairsDrawn(group, prob, 1, [agent |-> ag, used |-> 0], tape)
    IN  {a \in DOMAIN ag : ~ag[a]._infected /\ o.agent[a]._infected}

\* C17: a call of randomly_infect(group, prob) calls bernoulli(prob) once
\* for each ordered pair (INFECTIOUS, not INFECTIOUS) of the group, whatever
\* the draws are, and its outcomes are those of these draws.  With one
\* INFECTIOUS member and n susceptible ones there are n trials, every set S
\* of the susceptible agents is the newly pending set with probability
\* prob^|S| * (1 - prob)^(n - |S|), and the expected number of newly
\* pending agents is n * prob.  (prob is q halves and the equally likely
\* draws are counted.)
C17_ContagionLaw ==
    LET group == classrooms[1]
        T == Cardinality(Trials(agent, group))
        run(tape) == InfectPairsDrawn(group, q, 1, [agent |-> agent, used |-> 0], tape)
        sus == Susceptible(agent, group)
        n == Cardinality(sus)
        halves == Cardinality(uniform01)
    IN  pc \in {"group", "grouped"} =>
        /\ \A tape \in Tapes(T) : run(tape).used = T
        /\ {run(tape).agent : tape \in Tapes(T)}
              = {o.agent : o \in randomly_infect(group, q, [agent |-> agent, sources |-> {}])}
        /\ (Cardinality(Infectious(agent, Members(<<group>>))) = 1 /\ Len(group) = n + 1) =>
              /\ T = n
              /\ \A S \in SUBSET sus :
                    Cardinality({tape \in Tapes(n) : NewlyPending(agent, group, q, tape) = S})
                        = Pow(q, Cardinality(S)) * Pow(halves - q, n - Cardinality(S))
              /\ halves * Cardinality({ta \in Tapes(n) \X sus :
                                          ta[2] \in NewlyPending(agent, group, q, ta[1])})
                    = Pow(halves, n) * n * q

\* C17: a call with prob = 0.5 on one INFECTIOUS and two HEALTHY agents has
\* flagged one of the two
C17_Witness ==
    /\ pc = "grouped" /\ bernoulli(q) = {TRUE, FALSE}
    /\ Len(classrooms[1]) = 3
    /\ Cardinality(sources) = 1
    /\ Cardinality(Susceptible(agent, classrooms[1])) = 1
    /\ Cardinality(Pending \cap Members(classrooms)) = 1

\* C20: a call randomly_infect(group, prob) changes no agent's state or
\* infectious_end and no agent outside the group; it only flags agents;
\* the newly flagged agents are members that were not INFECTIOUS; none is
\* flagged when the group has no INFECTIOUS member or prob = 0; and with
\* prob = 1.0 and an INFECTIOUS member every member that is not INFECTIOUS
\* is flagged after the call.
C20_RandomlyInfectFrame ==
    [][pc = "group" =>
          LET group == Members(classrooms)
          IN  /\ \A a \in DOMAIN agent :
                    /\ agent'[a].state = agent[a].state
                    /\ agent'[a].infectious_end = agent[a].infectious_end
              /\ \A a \in DOMAIN agent \ group : agent'[a] = agent[a]
              /\ NewlyFlagged \subseteq {a \in group : ~infectious(agent[a])}
              /\ (Infectious(agent, group) = {} \/ q = 0) => agent' = agent
              /\ (Infectious(agent, group) # {} /\ q = ProbOne) =>
                    \A a \in group : ~infectious(agent[a]) => agent'[a]._infected]_vars

\* C20: a call with prob = 1.0 has flagged a member of a group with an
\* INFECTIOUS member, and an agent outside the group is HEALTHY and not flagged
C20_Witness ==
    /\ pc = "grouped" /\ q = ProbOne
    /\ sources # {}
    /\ Pending \cap Members(classrooms) # {}
    /\ \E a \in DOMAIN agent \ Members(classrooms) : agent[a] = StudentAgent

\* C15: the list students always holds the N agents, each once, whatever
\* its order; once the allocation is over no step changes the apartments:
\* not the classroom rounds with their shuffle of students, not the
\* apartment rounds, not the advance; and the apartments hold the N agents.
C15_ApartmentsFixed ==
    /\ [](/\ Len(students) = N
          /\ Members(<<students>>) = 1..N
          /\ DOMAIN agent = 1..N
          /\ AllocationOver => Members(Occupants) = 1..N)
    /\ [][AllocationOver => apartments' = apartments]_vars

\* C15: after some days of rounds, shuffles and advances the list students
\* is in another order than at its creation, and two agents share an apartment
C15_Witness ==
    /\ pc = "morning" /\ day_number > 1
    /\ students # [i \in 1..N |-> i]
    /\ \E j \in 1..Len(apartments) : Len(apartments[j].occupants) > 1
    /\ \E a \in 1..N : agent[a].state = INFECTIOUS

NotHealthy(ag) == {a \in DOMAIN ag : have_been_sick(ag[a])}

\* C18: an agent that simulate_disease(d) makes INFECTIOUS gets
\* infectious_end = d + r with r in 7..10; it stays INFECTIOUS in every
\* advance with day_number < d + r and becomes IMMUNE in the advance with
\* day_number = d + r, which the run does not skip: an INFECTIOUS agent's
\* infectious_end is always ahead of day_number, by at most 10 days, and an
\* IMMUNE agent's is not.  So the agent is INFECTIOUS at the r samples of
\* the days d .. d + r - 1, and no agent is INFECTIOUS at the end of a run
\* that went on to its infectious_end.
C18_InfectiousPeriod ==
    /\ [](\A a \in 1..N :
            /\ agent[a].state = INFECTIOUS =>
                  /\ day_number < agent[a].infectious_end
                  /\ agent[a].infectious_end <= day_number + InfectiousTimeMax
            /\ agent[a].state = IMMUNE =>
                  /\ agent[a].infectious_end <= day_number
                  /\ agent[a].infectious_end >= 1 + InfectiousTimeMin)
    /\ [][\A a \in 1..N :
            /\ (agent[a].state = HEALTHY /\ agent'[a].state = INFECTIOUS) =>
                  /\ pc = "advance"
                  /\ agent'[a].infectious_end - day_number'
                        \in InfectiousTimeMin..InfectiousTimeMax
            /\ (pc = "advance" /\ agent[a].state = INFECTIOUS) =>
                  IF day_number' = agent[a].infectious_end
                  THEN agent'[a].state = IMMUNE
                  ELSE agent'[a] = agent[a] /\ day_number' < agent[a].infectious_end
            /\ (agent[a].state = INFECTIOUS /\ agent'[a].state = IMMUNE) =>
                  pc = "advance"]_vars

\* C18: an agent seeded before day 1 was INFECTIOUS for the longest time,
\* 10 days, and has just become IMMUNE
C18_Witness ==
    /\ pc = "morning"
    /\ day_number = 1 + InfectiousTimeMax
    /\ \E a \in 1..N : agent[a].state = IMMUNE /\ agent[a].infectious_end = day_number

ChunksWith(shuffled, n_classrooms, k) ==
    [i \in 1..n_classrooms |-> Slice(shuffled, i - 1, k)]

C21_SeriesBounds ==
    /\ Len(infected_count) = Len(sick_count)
    /\ \A i \in 1..Len(sick_count) :
          /\ 0 <= infected_count[i]
          /\ infected_count[i] <= sick_count[i]
          /\ sick_count[i] <= N
    /\ \A i \in 1..(Len(sick_count) - 1) : sick_count[i] <= sick_count[i + 1]
    /\ pc = "returned" =>
          /\ \A i \in 1..Len(result.sick_count_daily_change) :
                result.sick_count_daily_change[i] >= 0
          /\ \A i \in 1..Len(result.sick_count) : result.sick_count[i] <= result.total_sick
          /\ \E i \in 1..Len(result.sick_count) : result.sick_count[i] = result.total_sick

\* C21: a run has returned in which the ever-sick count grew from one day
\* to the next and, after a recovery, fewer agents were infectious than had
\* been sick
C21_Witness ==
    /\ pc = "returned"
    /\ \E i \in 1..Len(result.sick_count_daily_change) :
          result.sick_count_daily_change[i] > 0
    /\ \E i \in 1..Len(result.sick_count) :
          /\ 0 < result.infected_count[i]
          /\ result.infected_count[i] < result.sick_count[i]

====
